---- MODULE Spec2Model ----
(***************************************************************************)
(* Model of go-orbitdb's trust core: the ECDSA signature wire format       *)
(* (signData / SignIdentity / VerifyIdentityWithEntry), the public-key     *)
(* identity provider, the Identities manager and its cache, and oplog      *)
(* entry construction and verification (NewEntry / Encode /                *)
(* VerifyEntrySignature).                                                  *)
(*                                                                         *)
(* Cryptography is scaled down, not removed: the curve is a group of prime *)
(* order CurveN whose scalars need one or two bytes, so that r and s take  *)
(* different natural byte lengths exactly as P-256 scalars do (31 or 32    *)
(* bytes).  Strings that the code slices (signatures, hex keys) are        *)
(* sequences of characters: 0..15 are the hex digits, NonHex is any other  *)
(* character.                                                              *)
(***************************************************************************)
EXTENDS Integers, Sequences, FiniteSets, TLC

VARIABLES
    \* --- signature round trip (signData -> VerifyIdentityWithEntry)
    sgPhase, sgKey, sgData, sgR, sgS, sgSig, sgVData, sgOut,
    \* --- Identities manager, sequential use
    providers, asked, mgr, mgrErr, calls, created, lastErr, subject, verified,
    \* --- Identities manager, concurrent CreateIdentity callers
    pc, local, storage, snap, raced, crashed,
    \* --- oplog entries
    identityProviders, entry, original, signer, outcome, tampered, vCall, vResult

sigVars   == <<sgPhase, sgKey, sgData, sgR, sgS, sgSig, sgVData, sgOut>>
idsVars   == <<providers, asked, mgr, mgrErr, calls, created, lastErr, subject, verified>>
concVars  == <<pc, local, storage, snap, raced, crashed>>
entryVars == <<identityProviders, entry, original, signer, outcome, tampered, vCall, vResult>>
vars      == <<sigVars, idsVars, concVars, entryVars>>

None == "none"

-----------------------------------------------------------------------------
(* Bounds of the model.                                                    *)

\* Nonces the entropy source may hand to ecdsa.Sign in the manager and entry
\* specifications (the round-trip specification draws every scalar).
NumNonces == 4
\* Largest logical clock time an entry is built with.
MaxTime == 2
\* CreateIdentity calls made on one manager in a sequential run.
MaxCreates == 2
\* Concurrent callers of CreateIdentity on one manager.
NumCallers == 2

-----------------------------------------------------------------------------
(* The curve (crypto/elliptic, crypto/ecdsa), scaled down.                 *)

\* Order of the group: a prime between 2^8 and 2^16, so scalars are one or
\* two bytes long.
CurveN == 509
\* The base point; ScalarBaseMult(d) is d times it.
BasePoint == 3
\* createHardcodedKeyPair's private scalar D.
HardcodedD == 94
\* A second key pair, as ecdsa.GenerateKey hands out in the tests.
OtherD == 201

ScalarBaseMult(d) == (BasePoint * d) % CurveN

\* ecdsa.Sign with nonce k: r is derived from the nonce, s binds the digest
\* to r under the private scalar.  A zero s makes the library draw again,
\* so callers only pass nonces for which SignS is non-zero.
SignR(k) == k % CurveN
SignS(d, h, k) == (h + SignR(k) * d) % CurveN

\* ecdsa.Verify: rejects r, s outside [1, N-1], then checks the group
\* equation s*G = h*G + r*Q.
EcdsaVerify(pub, h, r, s) ==
    /\ r \in 1..(CurveN - 1)
    /\ s \in 1..(CurveN - 1)
    /\ (s * BasePoint) % CurveN = (h * BasePoint + r * pub) % CurveN

-----------------------------------------------------------------------------
(* math/big and encoding/hex.                                              *)

NonHex == 16

RECURSIVE BigBytes(_)
\* big.Int.Bytes(): the big-endian magnitude with no leading zero byte.
BigBytes(v) == IF v = 0 THEN <<>> ELSE Append(BigBytes(v \div 256), v % 256)

RECURSIVE HexEncodeToString(_)
\* hex.EncodeToString: two digits per byte.
HexEncodeToString(bs) ==
    IF bs = <<>> THEN <<>>
    ELSE <<Head(bs) \div 16, Head(bs) % 16>> \o HexEncodeToString(Tail(bs))

RECURSIVE HexValue(_)
HexValue(str) ==
    IF str = <<>> THEN 0 ELSE 16 * HexValue(SubSeq(str, 1, Len(str) - 1)) + str[Len(str)]

\* big.Int.SetString(str, 16): fails on the empty string and on any
\* character that is no hex digit.
SetString(str) ==
    IF Len(str) > 0 /\ \A i \in 1..Len(str) : str[i] < NonHex
    THEN [ok |-> TRUE, val |-> HexValue(str)]
    ELSE [ok |-> FALSE, val |-> 0]

-----------------------------------------------------------------------------
(* Byte strings and digests.                                               *)
(* A byte string is <<kind, value>>: "str" for []byte(s) of a Go string,   *)
(* "hex" for []byte(h) of a hex string, "dag-cbor" for the canonical       *)
(* encoding of an Entry (the map of its fields under their schema names).  *)

BytesOfString(s) == <<"str", s>>
BytesOfHex(h) == <<"hex", h>>

\* sha256.Sum256 / mh.Sum(SHA2_256): collision-free, so a digest is
\* identified by what was digested.
Sha256Sum(data) == [alg |-> "sha2-256", of |-> data]

IndexOf(seq, x) == CHOOSE i \in 1..Len(seq) : seq[i] = x

\* Private scalars of the key pairs in play, and their public keys in hex.
PrivKeys == <<HardcodedD, OtherD>>
PublicKeyHexOf(d) == HexEncodeToString(BigBytes(ScalarBaseMult(d)))

\* The strings, ids, payloads and clocks the operations are called with.
IDs == <<"alice", "">>
Strings == <<"alice", "bob", "", "test-data", "tampered-data">>
Payloads == <<"hello", "jello">>
EntryIDs == <<"log-a", "log-b">>
ClockIDs == <<"alice">>
IdentityHashes == <<"zdpuAlice", "zdpuBob">>
KeyStrings == <<PublicKeyHexOf(HardcodedD), PublicKeyHexOf(OtherD)>>

\* Position of pre-signature entry bytes among all such byte strings.
EntryIndex(e) ==
    ((((IndexOf(EntryIDs, e.ID) - 1) * Len(Payloads)
        + (IndexOf(Payloads, e.Payload) - 1)) * Len(ClockIDs)
        + (IndexOf(ClockIDs, e.Clock.id) - 1)) * (MaxTime + 1)
        + (e.Clock.time - 1)) * Len(KeyStrings) * Len(IdentityHashes)
    + (IndexOf(KeyStrings, e.Key) - 1) * Len(IdentityHashes)
    + IndexOf(IdentityHashes, e.Identity)

\* ecdsa's hashToInt: the digest as an integer below the group order.
\* Distinct digests give distinct integers (no collisions among the byte
\* strings that are ever signed or verified).
HashToInt(h) ==
    LET kind == h.of[1]
        v    == h.of[2]
    IN  CASE kind = "str" -> IndexOf(Strings, v)
          [] kind = "hex" -> Len(Strings) + IndexOf(KeyStrings, v)
          [] kind = "dag-cbor" -> Len(Strings) + Len(KeyStrings) + EntryIndex(v)

\* rand.Reader failing makes ecdsa.Sign return an error.
EntropyFailure == 0

\* Nonces for which ecdsa.Sign returns (r, s) for digest h under scalar d.
UsableNonces(d, h) == {k \in 1..(CurveN - 1) : SignS(d, h, k) # 0}
\* The bounded selection of them used outside the round-trip specification:
\* spread over the range so that r and s take both byte lengths.
BoundedNonces(d, h) ==
    {k \in UsableNonces(d, h) : \E i \in 1..NumNonces : k = (i * 127) % CurveN}

-----------------------------------------------------------------------------
(* Signature wire format.                                                  *)

\* providers.signData (and, with the same body, SignIdentity): digest,
\* ecdsa.Sign, then hex(r.Bytes()) followed by hex(s.Bytes()).
signData(privateKey, data, k) ==
    LET hash == Sha256Sum(data)
    IN  IF k = EntropyFailure
        THEN [sig |-> <<>>, err |-> "ecdsa.Sign"]
        ELSE [sig |-> HexEncodeToString(BigBytes(SignR(k)))
                      \o HexEncodeToString(BigBytes(SignS(privateKey, HashToInt(hash), k))),
              err |-> None]

\* PublicKeyIdentityProvider.SignIdentity: the same encoding, with the
\* identity's private key.
SignIdentity(data, identity, k) == signData(identity.PrivateKey, data, k)

\* The decoding inside VerifyIdentityWithEntry: the string is cut in the
\* middle, each half parsed as a base-16 integer.
DecodeSignature(signature) ==
    LET sigLen == Len(signature) \div 2
    IN  [r |-> SetString(SubSeq(signature, 1, sigLen)),
         s |-> SetString(SubSeq(signature, sigLen + 1, Len(signature)))]

\* PublicKeyIdentityProvider.VerifyIdentityWithEntry.
VerifyIdentityWithEntry(identity, data, signature) ==
    LET hash == Sha256Sum(data)
        dec  == DecodeSignature(signature)
    IN  IF ~dec.r.ok THEN [valid |-> FALSE, err |-> "invalid signature format"]
        ELSE IF ~dec.s.ok THEN [valid |-> FALSE, err |-> "invalid signature format"]
        ELSE [valid |-> EcdsaVerify(identity.PublicKey, HashToInt(hash), dec.r.val, dec.s.val),
              err |-> None]

-----------------------------------------------------------------------------
(* Round trip of the wire format: sign some data, then verify the          *)
(* signature string against the same or other data.                        *)

SigData == {BytesOfString("test-data"), BytesOfString("tampered-data"), BytesOfString("alice")}

\* identities.Identity, as far as signing and verifying read it.
KeyIdentity(d) ==
    [Identity |-> "zdpuAlice", Type |-> "publickey",
     PublicKey |-> ScalarBaseMult(d), PrivateKey |-> d]

InitSig ==
    /\ sgPhase = "start"
    /\ sgKey \in {PrivKeys[i] : i \in 1..Len(PrivKeys)}
    /\ sgData \in SigData
    /\ sgR = 0
    /\ sgS = 0
    /\ sgSig = <<>>
    /\ sgVData = BytesOfString("")
    /\ sgOut = [valid |-> FALSE, err |-> None]

\* signData(privateKey, data) with the nonce the entropy source yields.
SgSign ==
    /\ sgPhase = "start"
    /\ \E k \in UsableNonces(sgKey, HashToInt(Sha256Sum(sgData))) :
         /\ sgR' = SignR(k)
         /\ sgS' = SignS(sgKey, HashToInt(Sha256Sum(sgData)), k)
         /\ sgSig' = signData(sgKey, sgData, k).sig
    /\ sgPhase' = "signed"
    /\ UNCHANGED <<sgKey, sgData, sgVData, sgOut>>
    /\ UNCHANGED <<idsVars, concVars, entryVars>>

\* VerifyIdentityWithEntry(identity, data', signature).
SgVerify ==
    /\ sgPhase = "signed"
    /\ \E d \in SigData :
         /\ sgVData' = d
         /\ sgOut' = VerifyIdentityWithEntry(KeyIdentity(sgKey), d, sgSig)
    /\ sgPhase' = "verified"
    /\ UNCHANGED <<sgKey, sgData, sgR, sgS, sgSig>>
    /\ UNCHANGED <<idsVars, concVars, entryVars>>


-----------------------------------------------------------------------------
(* identitytypes.Identity and the public-key provider.                     *)
(* A Go string that the code slices or that holds an encoding is a         *)
(* sequence, empty when the field is unset; a nil pointer or absent value  *)
(* is the empty sequence, a present one a sequence of one element.         *)

Nil == <<>>
Ptr(x) == <<x>>
Deref(p) == p[1]

MapSet(m, k, v) == [x \in (DOMAIN m) \cup {k} |-> IF x = k THEN v ELSE m[x]]
MapValues(m) == {m[k] : k \in DOMAIN m}
EmptyMap == [x \in {} |-> Nil]

\* identitytypes.EncodeIdentity: canonical bytes of every field but the
\* private key, and the content hash of those bytes.
EncodeIdentity(identity) ==
    LET bytes == <<"dag-cbor",
                   [ID |-> identity.ID, PublicKey |-> identity.PublicKey,
                    Signatures |-> identity.Signatures, Type |-> identity.Type]>>
    IN  [hash |-> <<"zdpu", Sha256Sum(bytes)>>, bytes |-> bytes]

\* identitytypes.IsIdentity: every required field is populated.
IsIdentity(identity) ==
    /\ identity.ID # ""
    /\ identity.PublicKey # <<>>
    /\ identity.Type # ""
    /\ identity.Hash # <<>>
    /\ identity.Bytes # <<>>
    /\ {"id", "publicKey"} \subseteq DOMAIN identity.Signatures
    /\ identity.Signatures["id"] # <<>>
    /\ identity.Signatures["publicKey"] # <<>>

\* Identity.Verify(signature, data): the public key is parsed from its hex
\* form, the signature is decoded as the repository decodes its wire
\* format, and ecdsa.Verify decides; anything malformed is false.
IdentityVerify(identity, signature, data) ==
    LET pub == SetString(identity.PublicKey)
        dec == DecodeSignature(signature)
    IN  /\ pub.ok
        /\ dec.r.ok
        /\ dec.s.ok
        /\ EcdsaVerify(pub.val, HashToInt(Sha256Sum(data)), dec.r.val, dec.s.val)

\* PublicKeyProvider.Verify.
ProviderVerify(identity, signature, data) == IdentityVerify(identity, signature, data)

\* createHardcodedKeyPair.
createHardcodedKeyPair == HardcodedD

\* PublicKeyProvider.CreateIdentity(id), with the nonces of its two
\* signData calls.
ProviderCreateIdentity(id, k1, k2) ==
    LET privateKey == createHardcodedKeyPair
        publicKey == PublicKeyHexOf(privateKey)
        idSignature == signData(privateKey, BytesOfString(id), k1)
        publicKeySignature == signData(privateKey, BytesOfHex(publicKey), k2)
        identity == [ID |-> id, PublicKey |-> publicKey, PrivateKey |-> privateKey,
                     Signatures |-> [id |-> idSignature.sig,
                                     publicKey |-> publicKeySignature.sig],
                     Type |-> "publickey", Hash |-> <<>>, Bytes |-> <<>>]
        enc == EncodeIdentity(identity)
    IN  IF idSignature.err # None THEN [identity |-> Nil, err |-> idSignature.err]
        ELSE IF publicKeySignature.err # None
             THEN [identity |-> Nil, err |-> publicKeySignature.err]
        ELSE [identity |-> Ptr([identity EXCEPT !.Hash = enc.hash, !.Bytes = enc.bytes]),
              err |-> None]

\* PublicKeyProvider.VerifyIdentity.
ProviderVerifyIdentity(identity) ==
    IF ~IsIdentity(identity)
    THEN [ok |-> FALSE, err |-> "identity is missing required fields"]
    ELSE IF \/ "id" \notin DOMAIN identity.Signatures
            \/ ~ProviderVerify(identity, identity.Signatures["id"],
                               BytesOfString(identity.ID))
    THEN [ok |-> FALSE, err |-> "invalid or missing ID signature"]
    ELSE IF \/ "publicKey" \notin DOMAIN identity.Signatures
            \/ ~ProviderVerify(identity, identity.Signatures["publicKey"],
                               BytesOfHex(identity.PublicKey))
    THEN [ok |-> FALSE, err |-> "invalid or missing public key signature"]
    ELSE [ok |-> TRUE, err |-> None]

-----------------------------------------------------------------------------
(* The Identities manager.                                                 *)

\* identities.GetProvider: the provider registered under the type name, or
\* a not-found error.
GetProvider(registry, providerType) ==
    IF providerType \in DOMAIN registry
    THEN [provider |-> registry[providerType], err |-> None]
    ELSE [provider |-> "", err |-> "provider not found"]

\* identities.RegisterProvider, as init() calls it: inserts under Type().
RegisterProvider(registry, providerType, provider) == MapSet(registry, providerType, provider)

\* A NewIdentities that falls back to the public-key provider when the
\* type is not registered.
NewIdentitiesWithDefault(registry, providerType) ==
    LET got == GetProvider(registry, providerType)
    IN  [ids |-> Ptr([storage |-> EmptyMap,
                      provider |-> IF got.err # None THEN "PublicKeyProvider"
                                   ELSE got.provider]),
         err |-> None]

\* NewIdentities(providerType): a manager with an empty storage map, or nil
\* and the registry's error.
NewIdentities(registry, providerType) ==
    LET got == GetProvider(registry, providerType)
    IN  IF got.err # None
        THEN [ids |-> Nil, err |-> got.err]
        ELSE [ids |-> Ptr([storage |-> EmptyMap, provider |-> got.provider]), err |-> None]

\* A CreateIdentity that stores the provider's result before checking it.
CreateIdentityStoreFirst(ids, id, k1, k2) ==
    LET got == ProviderCreateIdentity(id, k1, k2)
    IN  IF got.err # None
        THEN [identity |-> Nil, err |-> got.err, storage |-> ids.storage]
        ELSE IF ~IsIdentity(Deref(got.identity))
        THEN [identity |-> Nil, err |-> "invalid identity created",
              storage |-> MapSet(ids.storage, Deref(got.identity).Hash, Deref(got.identity))]
        ELSE [identity |-> got.identity, err |-> None,
              storage |-> MapSet(ids.storage, Deref(got.identity).Hash, Deref(got.identity))]

\* Identities.CreateIdentity(id): the provider's result, the completeness
\* check, then the store under the identity's hash.
CreateIdentity(ids, id, k1, k2) ==
    LET got == ProviderCreateIdentity(id, k1, k2)
    IN  IF got.err # None
        THEN [identity |-> Nil, err |-> got.err, storage |-> ids.storage]
        ELSE IF ~IsIdentity(Deref(got.identity))
        THEN [identity |-> Nil, err |-> "invalid identity created", storage |-> ids.storage]
        ELSE [identity |-> got.identity, err |-> None,
              storage |-> MapSet(ids.storage, Deref(got.identity).Hash, Deref(got.identity))]

\* Identities.VerifyIdentity: the provider's verdict, its error dropped.
VerifyIdentity(ids, identity) == ProviderVerifyIdentity(identity).ok


\* The provider types a caller may name: the registered one and one that
\* was never registered.
ProviderTypes == {"publickey", "ghost"}

\* After init(): the public-key provider is registered, no manager exists.
InitIds ==
    /\ providers = RegisterProvider(EmptyMap, "publickey", "PublicKeyProvider")
    /\ asked = None
    /\ mgr = Nil
    /\ mgrErr = None
    /\ calls = 0
    /\ created = {}
    /\ lastErr = None
    /\ subject = Nil
    /\ verified = FALSE

\* ids, err := NewIdentities(providerType)
DoNewIdentities ==
    /\ asked = None
    /\ \E t \in ProviderTypes :
         LET res == NewIdentities(providers, t)
         IN  /\ asked' = t
             /\ mgr' = res.ids
             /\ mgrErr' = res.err
    /\ UNCHANGED <<providers, calls, created, lastErr, subject, verified>>
    /\ UNCHANGED <<sigVars, concVars, entryVars>>

\* identity, err := ids.CreateIdentity(id).  created collects what the
\* successful calls returned.
DoCreateIdentity ==
    /\ mgr # Nil
    /\ calls < MaxCreates
    /\ \E id \in {IDs[i] : i \in 1..Len(IDs)} :
       \E k1 \in BoundedNonces(HardcodedD, HashToInt(Sha256Sum(BytesOfString(id))))
                   \cup {EntropyFailure} :
       \E k2 \in BoundedNonces(HardcodedD,
                     HashToInt(Sha256Sum(BytesOfHex(PublicKeyHexOf(HardcodedD)))))
                   \cup {EntropyFailure} :
         LET res == CreateIdentity(Deref(mgr), id, k1, k2)
         IN  /\ mgr' = Ptr([Deref(mgr) EXCEPT !.storage = res.storage])
             /\ lastErr' = res.err
             /\ created' = IF res.err = None
                           THEN created \cup {Deref(res.identity)}
                           ELSE created
    /\ calls' = calls + 1
    /\ UNCHANGED <<providers, asked, mgrErr, subject, verified>>
    /\ UNCHANGED <<sigVars, concVars, entryVars>>

\* A caller's copy of an identity with one field given a different value.
FlipLast(str) == [str EXCEPT ![Len(str)] = (@ + 1) % 16]
Mutations == {"none", "PublicKey", "Signatures.id", "Signatures.publicKey"}
Mutate(identity, field) ==
    CASE field = "none" -> identity
      [] field = "PublicKey" ->
           [identity EXCEPT !.PublicKey =
               IF @ = PublicKeyHexOf(OtherD) THEN PublicKeyHexOf(HardcodedD)
               ELSE PublicKeyHexOf(OtherD)]
      [] field = "Signatures.id" ->
           [identity EXCEPT !.Signatures["id"] = FlipLast(@)]
      [] field = "Signatures.publicKey" ->
           [identity EXCEPT !.Signatures["publicKey"] = FlipLast(@)]

\* ok := ids.VerifyIdentity(identity), on an identity CreateIdentity
\* returned or on a mutated copy of one.
DoVerifyIdentity ==
    /\ mgr # Nil
    /\ \E identity \in created : \E field \in Mutations :
         /\ subject' = Ptr([identity |-> Mutate(identity, field), field |-> field])
         /\ verified' = VerifyIdentity(Deref(mgr), Mutate(identity, field))
    /\ UNCHANGED <<providers, asked, mgr, mgrErr, calls, created, lastErr>>
    /\ UNCHANGED <<sigVars, concVars, entryVars>>


-----------------------------------------------------------------------------
(* Several callers inside Identities.CreateIdentity on one manager.        *)
(* The method takes no lock.  The provider call and the completeness check *)
(* work on the caller's own values; the statement                          *)
(* ids.storage[identity.Hash] = identity is a runtime map assignment,      *)
(* which is not atomic: it has a beginning and an end, and two assignments *)
(* that overlap are a data race on the map.                                *)

Callers == 1..NumCallers

InitConc ==
    /\ pc = [p \in Callers |-> "call"]
    /\ local = [p \in Callers |-> Nil]
    /\ storage = EmptyMap
    /\ snap = [p \in Callers |-> EmptyMap]
    /\ raced = [p \in Callers |-> FALSE]
    /\ crashed = FALSE

\* Lines 30-37: the provider's CreateIdentity and the IsIdentity check.
CcProvider(p) ==
    /\ ~crashed
    /\ pc[p] = "call"
    /\ \E id \in {IDs[i] : i \in 1..Len(IDs)} :
       \E k1 \in BoundedNonces(HardcodedD, HashToInt(Sha256Sum(BytesOfString(id))))
                   \cup {EntropyFailure} :
       \E k2 \in BoundedNonces(HardcodedD,
                     HashToInt(Sha256Sum(BytesOfHex(PublicKeyHexOf(HardcodedD)))))
                   \cup {EntropyFailure} :
         LET got == ProviderCreateIdentity(id, k1, k2)
         IN  IF got.err = None /\ IsIdentity(Deref(got.identity))
             THEN /\ local' = [local EXCEPT ![p] = got.identity]
                  /\ pc' = [pc EXCEPT ![p] = "store"]
             ELSE /\ local' = local
                  /\ pc' = [pc EXCEPT ![p] = "failed"]
    /\ UNCHANGED <<storage, snap, raced, crashed>>
    /\ UNCHANGED <<sigVars, idsVars, entryVars>>

\* Line 40 begins: the caller enters the map assignment.  Nothing keeps a
\* second caller out; each of two overlapping assignments has raced.
CcBeginStore(p) ==
    /\ ~crashed
    /\ pc[p] = "store"
    /\ pc' = [pc EXCEPT ![p] = "storing"]
    /\ snap' = [snap EXCEPT ![p] = storage]
    /\ raced' = [q \in Callers |->
                    IF \E o \in Callers \ {p} : pc[o] = "storing"
                    THEN (q = p \/ pc[q] = "storing" \/ raced[q])
                    ELSE raced[q]]
    /\ UNCHANGED <<local, storage, crashed>>
    /\ UNCHANGED <<sigVars, idsVars, entryVars>>

\* Line 40 ends.  An assignment that overlapped no other has stored its
\* identity.  One that raced has any of the outcomes of the race: the
\* store lands, it lands on the map as it was when the assignment began
\* (dropping what the other caller stored since), or the runtime stops the
\* process ("fatal error: concurrent map writes").
CcEndStore(p) ==
    /\ ~crashed
    /\ pc[p] = "storing"
    /\ LET identity == Deref(local[p])
       IN  \/ /\ storage' = MapSet(storage, identity.Hash, identity)
              /\ crashed' = crashed
           \/ /\ raced[p]
              /\ storage' = MapSet(snap[p], identity.Hash, identity)
              /\ crashed' = crashed
           \/ /\ raced[p]
              /\ storage' = storage
              /\ crashed' = TRUE
    /\ pc' = [pc EXCEPT ![p] = "done"]
    /\ UNCHANGED <<local, snap, raced>>
    /\ UNCHANGED <<sigVars, idsVars, entryVars>>

-----------------------------------------------------------------------------
(* oplog: Entry, Encode, NewEntry, VerifyEntrySignature.                   *)

\* identities.Identity as NewEntry and the provider read it: the identity
\* hash, the provider type, and the ecdsa key pair (PrivateKey is the zero
\* value, here 0, on an identity that holds no private key).
NoPrivateKey == 0
EntryIdentity(hash, type, d, owned) ==
    [Identity |-> hash, Type |-> type, PublicKey |-> ScalarBaseMult(d),
     PrivateKey |-> IF owned THEN d ELSE NoPrivateKey]

\* Identities NewEntry is called with: type "publickey", owned or not.
Signers ==
    {EntryIdentity("zdpuAlice", "publickey", HardcodedD, TRUE),
     EntryIdentity("zdpuBob", "publickey", OtherD, TRUE),
     EntryIdentity("zdpuAlice", "publickey", HardcodedD, FALSE)}

\* Identity.PublicKeyHex().
PublicKeyHex(identity) == HexEncodeToString(BigBytes(identity.PublicKey))

\* Identity.Sign(data): an error when the identity holds no private key,
\* else the signature its provider makes.
IdentitySign(identity, data, k) ==
    IF identity.PrivateKey = NoPrivateKey
    THEN [sig |-> <<>>, err |-> "private key not found"]
    ELSE SignIdentity(data, identity, k)

\* provider_registry.GetIdentityProvider.
GetIdentityProvider(registry, providerType) ==
    IF providerType \in DOMAIN registry
    THEN [provider |-> registry[providerType], err |-> None]
    ELSE [provider |-> "", err |-> "provider not found"]

\* Encode(entry): the dag-cbor bytes of the entry's fields under their
\* schema names, and the CIDv1 of their SHA-256 digest.
Encode(e) ==
    LET buf == <<"dag-cbor",
                 [ID |-> e.ID, Payload |-> e.Payload, Next |-> e.Next, Refs |-> e.Refs,
                  Clock |-> [id |-> e.Clock.id, time |-> e.Clock.time], V |-> e.V,
                  Key |-> e.Key, Identity |-> e.Identity, Signature |-> e.Signature]>>
        hash == Sha256Sum(buf)
    IN  [Entry |-> e, Bytes |-> buf, CID |-> [version |-> 1, codec |-> "dag-cbor", hash |-> hash]]

\* The Entry literal NewEntry starts from.
EntryFields(identity, id, payload, clock) ==
    [ID |-> id, Payload |-> payload, Clock |-> clock, V |-> 2,
     Key |-> PublicKeyHex(identity), Identity |-> identity.Identity,
     Next |-> <<>>, Refs |-> <<>>, Signature |-> <<>>]

\* NewEntry(identity, id, payload, clock), with the nonce of its signing:
\* the entry is encoded with an empty signature, those bytes are signed, a
\* signing error panics, and the signature is set on the encoded entry that
\* the first Encode returned.
NewEntry(identity, id, payload, clock, k) ==
    LET e == EntryFields(identity, id, payload, clock)
        encodedEntry == Encode(e)
        signed == IdentitySign(identity, encodedEntry.Bytes, k)
    IN  IF signed.err # None
        THEN [panic |-> TRUE, encoded |-> Nil]
        ELSE [panic |-> FALSE,
              encoded |-> Ptr([encodedEntry EXCEPT !.Entry.Signature = signed.sig])]

\* A VerifyEntrySignature that goes on to the public-key provider when the
\* registry lookup failed.
VerifyEntrySignatureAnyProvider(registry, identity, e) ==
    LET res == VerifyIdentityWithEntry(identity, e.Bytes, e.Entry.Signature)
    IN  IF res.err # None THEN FALSE ELSE res.valid

\* VerifyEntrySignature(identity, entry).
VerifyEntrySignature(registry, identity, e) ==
    LET got == GetIdentityProvider(registry, identity.Type)
        res == VerifyIdentityWithEntry(identity, e.Bytes, e.Entry.Signature)
    IN  IF got.err # None THEN FALSE
        ELSE IF res.err # None THEN FALSE
        ELSE res.valid


Verifiers == Signers \cup {[s EXCEPT !.Type = "ghost"] : s \in Signers}

\* After init(): the registry holds the public-key provider; no entry yet.
InitEntry ==
    /\ identityProviders = RegisterProvider(EmptyMap, "publickey", "PublicKeyIdentityProvider")
    /\ entry = Nil
    /\ original = Nil
    /\ signer = Nil
    /\ outcome = None
    /\ tampered = None
    /\ vCall = Nil
    /\ vResult = FALSE

\* e := NewEntry(identity, id, payload, clock).  A panic ends the process.
DoNewEntry ==
    /\ outcome = None
    /\ \E identity \in Signers :
       \E id \in {EntryIDs[i] : i \in 1..Len(EntryIDs)} :
       \E payload \in {Payloads[i] : i \in 1..Len(Payloads)} :
       \E time \in 1..MaxTime :
       \E k \in BoundedNonces(identity.PrivateKey,
                    HashToInt(Sha256Sum(Encode(EntryFields(identity, id, payload,
                        [id |-> ClockIDs[1], time |-> time])).Bytes)))
                  \cup {EntropyFailure} :
         LET res == NewEntry(identity, id, payload, [id |-> ClockIDs[1], time |-> time], k)
         IN  /\ signer' = Ptr(identity)
             /\ entry' = res.encoded
             /\ original' = res.encoded
             /\ outcome' = IF res.panic THEN "panic" ELSE "returned"
    /\ UNCHANGED <<identityProviders, tampered, vCall, vResult>>
    /\ UNCHANGED <<sigVars, idsVars, concVars>>

\* A holder of the EncodedEntry assigns one of its exported fields a
\* different value; Bytes and CID stay what Encode made them.
TamperFields == {"Payload", "Key", "Clock.time", "Signature", "Signature.malformed"}
Tamper(e, field) ==
    CASE field = "Payload" ->
           [e EXCEPT !.Entry.Payload = IF @ = Payloads[1] THEN Payloads[2] ELSE Payloads[1]]
      [] field = "Key" ->
           [e EXCEPT !.Entry.Key = IF @ = KeyStrings[1] THEN KeyStrings[2] ELSE KeyStrings[1]]
      [] field = "Clock.time" ->
           [e EXCEPT !.Entry.Clock.time = @ + 1]
      [] field = "Signature" ->
           [e EXCEPT !.Entry.Signature = FlipLast(@)]
      [] field = "Signature.malformed" ->
           [e EXCEPT !.Entry.Signature = [@ EXCEPT ![1] = NonHex]]

DoTamper ==
    /\ outcome = "returned"
    /\ tampered = None
    /\ \E field \in TamperFields :
         /\ entry' = Ptr(Tamper(Deref(entry), field))
         /\ tampered' = field
    /\ UNCHANGED <<identityProviders, original, signer, outcome, vCall, vResult>>
    /\ UNCHANGED <<sigVars, idsVars, concVars>>

\* ok := VerifyEntrySignature(identity, e).  vCall keeps the arguments.
DoVerifyEntrySignature ==
    /\ outcome = "returned"
    /\ \E identity \in Verifiers :
         /\ vCall' = Ptr([identity |-> identity, entry |-> Deref(entry)])
         /\ vResult' = VerifyEntrySignature(identityProviders, identity, Deref(entry))
    /\ UNCHANGED <<identityProviders, entry, original, signer, outcome, tampered>>
    /\ UNCHANGED <<sigVars, idsVars, concVars>>

-----------------------------------------------------------------------------
(* Specifications.  Each runs one part of the system from the state after  *)
(* package initialisation and leaves the other parts where they start.     *)

InitAll == InitSig /\ InitIds /\ InitConc /\ InitEntry

Init ==
    /\ InitAll
    /\ sgKey = HardcodedD
    /\ sgData = BytesOfString("test-data")

\* Entries: NewEntry, field changes, VerifyEntrySignature.
Next == DoNewEntry \/ DoTamper \/ DoVerifyEntrySignature
Spec == Init /\ [][Next]_vars

\* The signature wire format's round trip, over every key, datum and nonce.
NextSig == SgSign \/ SgVerify
SpecSig == InitAll /\ [][NextSig]_vars

\* One Identities manager used by one caller.
NextIds == DoNewIdentities \/ DoCreateIdentity \/ DoVerifyIdentity
SpecIds == Init /\ [][NextIds]_vars

\* One Identities manager used by several callers at once.
NextConc == \E p \in Callers : CcProvider(p) \/ CcBeginStore(p) \/ CcEndStore(p)
SpecConc == Init /\ [][NextConc]_vars

-----------------------------------------------------------------------------
(* Claims.                                                                 *)

\* C1: the CID of every EncodedEntry NewEntry returns is the CID of the
\* canonical encoding of its entry with the signature attached.
C1_CIDOfSignedEntry ==
    original # Nil => Deref(original).CID = Encode(Deref(original).Entry).CID

\* C2: once an entry that verifies has its Payload, Key or Clock.time
\* changed, VerifyEntrySignature with the same identity returns false.
C2_TamperDetected ==
    ( /\ vCall # Nil
      /\ tampered \in {"Payload", "Key", "Clock.time"}
      /\ Deref(vCall).entry = Deref(entry)
      /\ VerifyEntrySignature(identityProviders, Deref(vCall).identity, Deref(original)) )
    => vResult = FALSE

\* C3: the signature string decodes back to the (r, s) that was signed,
\* verifies against the data that was signed, and against no other data.
C3_SignVerifyRoundTrip ==
    sgPhase = "verified" =>
        /\ DecodeSignature(sgSig).r = [ok |-> TRUE, val |-> sgR]
        /\ DecodeSignature(sgSig).s = [ok |-> TRUE, val |-> sgS]
        /\ sgVData = sgData => (sgOut.valid /\ sgOut.err = None)
        /\ sgVData # sgData => ~sgOut.valid

\* C4: VerifyEntrySignature accepts every entry NewEntry returned, given
\* the identity that signed it.
C4_FreshEntryAccepted ==
    ( /\ vCall # Nil
      /\ Deref(vCall).entry = Deref(original)
      /\ Deref(vCall).identity = Deref(signer)
      /\ Deref(signer).Type \in DOMAIN identityProviders )
    => vResult = TRUE

\* C5: VerifyIdentity is true of every identity CreateIdentity returned and
\* false of a copy whose PublicKey or either self-signature was changed.
C5_SelfConsistent ==
    subject # Nil => (verified <=> Deref(subject).field = "none")

\* C6: no two callers are inside the map assignment together, and when all
\* calls have completed the cache holds every identity that was created.
C6_ExclusiveStores ==
    /\ Cardinality({p \in Callers : pc[p] = "storing"}) <= 1
    /\ (\A p \in Callers : pc[p] \in {"done", "failed"}) =>
          /\ ~crashed
          /\ \A p \in Callers : pc[p] = "done" => Deref(local[p]) \in MapValues(storage)

\* C7: NewEntry never panics; a failing step is returned to the caller.
C7_NoPanic == outcome # "panic"

\* C8: VerifyEntrySignature returns false, and changes nothing, when the
\* identity's type is not registered or the provider reports an error.
C8_UnregisteredIsFalse ==
    [][DoVerifyEntrySignature =>
         LET call == Deref(vCall')
         IN  ( \/ call.identity.Type \notin DOMAIN identityProviders
               \/ VerifyIdentityWithEntry(call.identity, call.entry.Bytes,
                                          call.entry.Entry.Signature).err # None )
             => /\ vResult' = FALSE
                /\ UNCHANGED <<identityProviders, entry, original, signer, outcome,
                               tampered, idsVars>>]_vars

\* An identity of an unregistered type was given an entry whose signature
\* its key verifies, and the answer was false.
C8_Witness ==
    /\ vCall # Nil
    /\ Deref(vCall).identity.Type \notin DOMAIN identityProviders
    /\ VerifyIdentityWithEntry(Deref(vCall).identity, Deref(vCall).entry.Bytes,
                               Deref(vCall).entry.Entry.Signature).valid
    /\ vResult = FALSE

\* C9: NewIdentities for an unregistered type returns no manager and the
\* not-found error; for a registered type, a manager bound to the provider
\* registered under that name, with an empty cache.
C9_NoDefaultProvider ==
    asked # None =>
        IF asked \in DOMAIN providers
        THEN /\ mgr # Nil
             /\ mgrErr = None
             /\ Deref(mgr).provider = providers[asked]
             /\ calls = 0 => Deref(mgr).storage = EmptyMap
        ELSE /\ mgr = Nil
             /\ mgrErr = "provider not found"

\* NewIdentities was called with a type nobody registered.
C9_Witness == asked = "ghost" /\ mgr = Nil /\ mgrErr # None

\* C10: the cache holds exactly the identities the successful calls
\* returned, each under its own Hash and each complete; a failed call
\* leaves it as it was.
C10_CacheIsWhatWasCreated ==
    mgr # Nil =>
        LET st == Deref(mgr).storage
        IN  /\ MapValues(st) = created
            /\ \A h \in DOMAIN st : st[h].Hash = h /\ IsIdentity(st[h])

\* Two calls were made: one returned an identity, the last one failed on
\* the completeness check.
C10_Witness ==
    /\ mgr # Nil
    /\ calls >= 2
    /\ Cardinality(created) = 1
    /\ lastErr = "invalid identity created"
    /\ Cardinality(DOMAIN Deref(mgr).storage) = 1


====
